---- MODULE Spec2Model ----
(***************************************************************************)
(* Model of src/src/action.py: the two streaming players, YouTubePlayer    *)
(* and TuneInRadio, their run() methods, the GPIO cancel callback and the  *)
(* VLC player-event callback.                                              *)
(*                                                                         *)
(* Threads: the actor's thread executes make_actor and then one run() at a *)
(* time; the RPi.GPIO callback thread executes the registered              *)
(* _on_input_event callbacks of an edge one after the other; each VLC      *)
(* player delivers its events on its own thread.  Every statement that     *)
(* reads or writes state shared between these threads is a step of its own.*)
(***************************************************************************)
EXTENDS Integers, Sequences, FiniteSets, TLC

\* ------------------------------------------------------------------ bounds
MaxSessions == 2     \* run() invocations in one behaviour
MaxPresses == 2      \* edges detected on the cancel channel in one behaviour

\* --------------------------------------------------------------- constants
Insts == {"yt", "radio"}

\* make_actor: YouTubePlayer(say, 'play'), TuneInRadio(say, 'radio')
keyword(p) == IF p = "yt" THEN <<"p", "l", "a", "y">>
                          ELSE <<"r", "a", "d", "i", "o">>

\* order in which make_actor constructs the two players
MakeOrder == <<"yt", "radio">>

\* the value Python's None is modelled by, for the attribute now_playing
None == <<"<None>">>

\* polarity=GPIO.FALLING is the default of _init_gpio
FALLING == "FALLING"
RISING == "RISING"

\* self.input_value = polarity == GPIO.RISING
PressedLevel(polarity) == polarity = RISING

\* GPIO.input(channel) == self.input_value: Python compares 0/1 with a bool
PyEqBool(level, b) == level = (IF b THEN 1 ELSE 0)

\* --------------------------------------------------------- string helpers
Chars == {" ", "A"}

\* str.lower()
LowerChar(c) == IF c = "A" THEN "a" ELSE c
Lower(s) == [i \in 1..Len(s) |-> LowerChar(s[i])]

\* positions at which sub occurs in s
Occurrences(s, sub) ==
    {i \in 1..(Len(s) - Len(sub) + 1) : SubSeq(s, i, i + Len(sub) - 1) = sub}

\* str.replace(sub, '', 1): the first occurrence of sub is removed
ReplaceFirst(s, sub) ==
    LET occ == Occurrences(s, sub)
    IN IF occ = {} \/ sub = <<>> THEN s
       ELSE LET i == CHOOSE j \in occ : \A k \in occ : j <= k
            IN SubSeq(s, 1, i - 1) \o SubSeq(s, i + Len(sub), Len(s))

\* str.strip(): leading and trailing whitespace is removed
IsSpace(c) == c = " "
Strip(s) ==
    LET keep == {i \in 1..Len(s) : ~IsSpace(s[i])}
    IN IF keep = {} THEN <<>>
       ELSE LET lo == CHOOSE i \in keep : \A k \in keep : i <= k
                hi == CHOOSE i \in keep : \A k \in keep : i >= k
            IN SubSeq(s, lo, hi)

\* the text of a command after the keyword is removed has nothing but spaces
IsBlank(p, voice_command) ==
    LET rest == ReplaceFirst(Lower(voice_command), keyword(p))
    IN \A i \in 1..Len(rest) : IsSpace(rest[i])

\* mutant of QueryOf: the call of strip() is forgotten
QueryOf_NoStrip(p, voice_command) == ReplaceFirst(Lower(voice_command), keyword(p))

\* voice_command.lower().replace(self.keyword, '', 1).strip()
QueryOf(p, voice_command) == Strip(ReplaceFirst(Lower(voice_command), keyword(p)))

\* the voice commands the actor hands to run(): the keyword with text around it
Frags == {<<>>} \cup {<<c>> : c \in Chars}
Commands(p) == {pre \o keyword(p) \o suf : pre \in Frags, suf \in Frags}

\* re.findall(r'(?!_)\w+(?<!_)', title): \w matches letters, digits and '_'
WordChars == {"a", "A", "b", "f", "o", "r", "z", "2", "4", "_"}
IsWord(c) == c \in WordChars

RECURSIVE FindWords(_, _)
FindWords(s, i) ==
    IF i > Len(s) THEN <<>>
    ELSE IF IsWord(s[i]) /\ s[i] # "_"
         THEN LET run == {j \in i..Len(s) : \A k \in i..j : IsWord(s[k])}
                  ends == {j \in run : s[j] # "_"}
                  e == CHOOSE j \in ends : \A k \in ends : j >= k
              IN <<SubSeq(s, i, e)>> \o FindWords(s, e + 1)
         ELSE FindWords(s, i + 1)

\* ' '.join(words)
RECURSIVE Join(_)
Join(words) ==
    IF words = <<>> THEN <<>>
    ELSE IF Len(words) = 1 THEN words[1]
    ELSE words[1] \o <<" ">> \o Join(Tail(words))

\* ' '.join(re.findall(pattern, track_info['title']))
CleanTitle(title) == Join(FindWords(title, 1))


\* titles for the check of the label: every string of at most MaxTitleLen
\* characters over a word character, a digit, '_', punctuation and a space,
\* and the title of the specification's example
MaxTitleLen == 3
TitleChars == {"a", "4", "_", "!", " "}
ExampleTitle == <<"f", "o", "o", "_", "b", "a", "r", "_", "_", "4", "2",
                  "!", "!", "b", "a", "z">>
Titles ==
    UNION {[1..n -> TitleChars] : n \in 0..MaxTitleLen} \cup {ExampleTitle}


\* ------------------------------------------------- responses of the network
\* titles the services answer with
YtTitles == {<<"A", "!", "4", "_">>}
StationTitles == {<<"b">>}

\* what youtube_dl's extract_info(track, download=False) can do: raise, or
\* return meta (None, or a dict whose 'entries' is a list of None/dict)
NoMeta == [truthy |-> FALSE, entries |-> <<>>]
YtEntry(t) == [truthy |-> TRUE, title |-> t]
NoEntry == [truthy |-> FALSE, title |-> <<>>]
ExtractInfos ==
    {[exc |-> TRUE, meta |-> NoMeta],
     [exc |-> FALSE, meta |-> NoMeta],
     [exc |-> FALSE, meta |-> [truthy |-> TRUE, entries |-> <<>>]],
     [exc |-> FALSE, meta |-> [truthy |-> TRUE, entries |-> <<NoEntry>>]]}
    \cup {[exc |-> FALSE, meta |-> [truthy |-> TRUE, entries |-> <<YtEntry(t)>>]] :
            t \in YtTitles}

\* the TuneIn search page: the fetch fails, or the body has / lacks the
\* 'TuneIn.payload = {...}' marker, whose JSON lists the categories
FILTER_STATIONS == "Stations"
Station(t) == [Id |-> "s1", Title |-> t]
Category(title, items) == [Title |-> title, GuideItems |-> items]
SearchPages ==
    {[fetch |-> FALSE, marker |-> FALSE, containers |-> <<>>],
     [fetch |-> TRUE, marker |-> FALSE, containers |-> <<>>],
     [fetch |-> TRUE, marker |-> TRUE, containers |-> <<>>],
     [fetch |-> TRUE, marker |-> TRUE,
      containers |-> <<Category("Shows", <<Station(<<"b">>)>>)>>],
     [fetch |-> TRUE, marker |-> TRUE,
      containers |-> <<Category(FILTER_STATIONS, <<>>)>>]}
    \cup {[fetch |-> TRUE, marker |-> TRUE,
           containers |-> <<Category("Shows", <<>>),
                            Category(FILTER_STATIONS, <<Station(t)>>)>>] :
            t \in StationTitles}

\* the station page: the fetch fails, or the body has / lacks the
\* '"StreamUrl":"..."' marker, whose captured text may be empty
StationPages ==
    {[fetch |-> FALSE, marker |-> FALSE, StreamUrl |-> ""],
     [fetch |-> TRUE, marker |-> FALSE, StreamUrl |-> ""],
     [fetch |-> TRUE, marker |-> TRUE, StreamUrl |-> ""],
     [fetch |-> TRUE, marker |-> TRUE, StreamUrl |-> "//stream.json"]}

\* the stream list: the fetch fails, or the JSON has / lacks 'Streams'
StreamLists ==
    {[fetch |-> FALSE, hasStreams |-> FALSE, Streams |-> <<>>],
     [fetch |-> TRUE, hasStreams |-> FALSE, Streams |-> <<>>],
     [fetch |-> TRUE, hasStreams |-> TRUE, Streams |-> <<>>],
     [fetch |-> TRUE, hasStreams |-> TRUE, Streams |-> <<[Url |-> <<"u">>]>>]}

\* results of the resolver methods: an exception, None, or a value
Raised == [exc |-> TRUE, none |-> TRUE, val |-> <<>>]
RetNone == [exc |-> FALSE, none |-> TRUE, val |-> <<>>]
Ret(v) == [exc |-> FALSE, none |-> FALSE, val |-> v]

\* Python truthiness of a returned list or string: None and empty are false
Truthy(r) == ~r.exc /\ ~r.none /\ r.val # <<>>

\* TuneInRadio._search
RECURSIVE FirstCategory(_, _)
FirstCategory(containers, search_filter) ==
    IF containers = <<>> THEN RetNone
    ELSE IF Head(containers).Title = search_filter
         THEN Ret(Head(containers).GuideItems)
         ELSE FirstCategory(Tail(containers), search_filter)

\* mutant of _search: the first category is taken whatever its title
_search_NoFilter(page) ==
    IF ~page.fetch THEN Raised
    ELSE IF ~page.marker THEN RetNone
    ELSE IF page.containers = <<>> THEN RetNone
    ELSE Ret(Head(page.containers).GuideItems)

_search(page) ==
    IF ~page.fetch THEN Raised
    ELSE IF ~page.marker THEN RetNone
    ELSE FirstCategory(page.containers, FILTER_STATIONS)

\* TuneInRadio._get_stream_list
_get_stream_list(list) ==
    IF ~list.fetch THEN Raised
    ELSE IF ~list.hasStreams THEN Raised
    ELSE Ret(list.Streams)

\* TuneInRadio._get_stream_url: result.group(1) on a failed match raises
_get_stream_url(page, list) ==
    IF ~page.fetch THEN Raised
    ELSE IF ~page.marker THEN Raised
    ELSE IF page.StreamUrl = "" THEN RetNone
    ELSE LET streams == _get_stream_list(list)
         IN IF streams.exc THEN Raised
            ELSE IF ~Truthy(streams) THEN RetNone
            ELSE Ret(streams.val[1].Url)

\* number of HTTP fetches _get_stream_url makes
StreamFetches(page) == IF page.fetch /\ page.marker /\ page.StreamUrl # "" THEN 2 ELSE 1

\* ------------------------------------------------------------------- state
VARIABLES
    made,        \* players make_actor has constructed so far
    detect,      \* GPIO: add_event_detect has been called on channel 23
    callbacks,   \* GPIO: the instances whose _on_input_event is registered
    pc,          \* position of run() of each instance
    track,       \* run(): the local track / search_str
    target,      \* run(): the local track_info / station
    done,        \* self.done
    now_playing, \* self.now_playing
    playing,     \* self.player is playing (libvlc state Playing)
    log,         \* say() calls, and the player calls of the instance in
                 \* run(), since the latest run() began
    result,      \* how the latest run() ended
    fetches,     \* resolver / network calls since the latest run() began
    cbq,         \* GPIO callback thread: callbacks of the edge still to run
    cbpc,        \* GPIO callback thread: position in the callback at the head
    level,       \* GPIO callback thread: what GPIO.input(channel) returned
    polarity,    \* the polarity each instance has armed the switch with
    input_value, \* self.input_value
    evpc,        \* VLC event thread of each player: position in the callback
    sessions,    \* run() invocations so far
    presses,     \* edges detected so far
    events,      \* terminal events observed since play() in the latest run()
    blank,       \* the command of the latest run() was blank but for the keyword
    now,         \* SpeakTime.run: what datetime.datetime.now() returned
    time_str,    \* SpeakTime.run: the sentence handed to say()
    mixer,       \* the Master volume of the sound card, in percent
    value,       \* VolumeControl: self.value (<<>> is None)
    vol_arg,     \* VolumeControl.set: the parameter of the latest call
    vol_said     \* VolumeControl: the sentence handed to say()

vars == <<made, detect, callbacks, pc, track, target, done, now_playing, playing,
          log, result, fetches, cbq, cbpc, level, polarity, input_value, evpc,
          sessions, presses, events, blank, now, time_str, mixer, value,
          vol_arg, vol_said>>

\* the state of the actors other than the two players
timeVars == <<now, time_str>>
volumeVars == <<mixer, value, vol_arg, vol_said>>

gpioVars == <<detect, callbacks, cbq, cbpc, level, polarity, input_value, presses>>
runLocals == <<track, target>>

\* entries of the log: self.say(text + arg), and a call of self.player
Say(p, text, arg) == [by |-> p, op |-> "say", text |-> text, arg |-> arg]
Call(p, method) == [by |-> p, op |-> method, text |-> "", arg |-> <<>>]

\* the state when make_actor begins, with the mixer at the given level
InitAt(volume) ==
    /\ made = 0
    /\ detect = FALSE
    /\ callbacks = <<>>
    /\ pc = [p \in Insts |-> "idle"]
    /\ track = <<>>
    /\ target = <<>>
    /\ done = [p \in Insts |-> FALSE]
    /\ now_playing = [p \in Insts |-> None]
    /\ playing = [p \in Insts |-> FALSE]
    /\ log = <<>>
    /\ result = "none"
    /\ fetches = 0
    /\ cbq = <<>>
    /\ cbpc = "check"
    /\ level = -1
    /\ polarity = [p \in Insts |-> "none"]
    /\ input_value = [p \in Insts |-> FALSE]
    /\ evpc = [p \in Insts |-> "none"]
    /\ sessions = 0
    /\ presses = 0
    /\ events = <<>>
    /\ blank = FALSE
    /\ now = [hour |-> 0, minute |-> 0]
    /\ time_str = None
    /\ mixer = volume
    /\ value = <<>>
    /\ vol_arg = 0
    /\ vol_said = [text |-> "", arg |-> 0]

Init == InitAt(0)


\* ---------------------------------------------------------- construction
\* _init_player: now_playing = None, done = False, a new media player
\* _init_gpio: self.input_value is set; then add_event_detect, or
\*             add_event_callback when the channel already has event
\*             detection (RuntimeError)
\* mutant of _init_gpio: the second registration is dropped
_init_gpio_Drop(p, pol) ==
    /\ polarity' = [polarity EXCEPT ![p] = pol]
    /\ input_value' = [input_value EXCEPT ![p] = PressedLevel(pol)]
    /\ IF ~detect
       THEN /\ detect' = TRUE
            /\ callbacks' = <<p>>
       ELSE /\ detect' = detect
            /\ callbacks' = callbacks

_init_gpio(p, pol) ==
    /\ polarity' = [polarity EXCEPT ![p] = pol]
    /\ input_value' = [input_value EXCEPT ![p] = PressedLevel(pol)]
    /\ IF ~detect
       THEN /\ detect' = TRUE
            /\ callbacks' = <<p>>
       ELSE /\ detect' = detect
            /\ callbacks' = Append(callbacks, p)

\* make_actor constructs YouTubePlayer, then TuneInRadio; each __init__
\* calls self._init_gpio(23), which takes the default polarity
Construct ==
    /\ made < Len(MakeOrder)
    /\ LET p == MakeOrder[made + 1]
       IN /\ now_playing' = [now_playing EXCEPT ![p] = None]
          /\ done' = [done EXCEPT ![p] = FALSE]
          /\ playing' = [playing EXCEPT ![p] = FALSE]
          /\ _init_gpio(p, FALLING)
    /\ made' = made + 1
    /\ UNCHANGED <<timeVars, volumeVars, pc, runLocals, log, result, fetches, cbq, cbpc, level, evpc,
                   sessions, presses, events, blank>>

\* ------------------------------------------------------------------ run()
Idle == \A p \in Insts : pc[p] = "idle"

\* run() returns or raises: the locals die
Leave(p, how) ==
    /\ pc' = [pc EXCEPT ![p] = "idle"]
    /\ result' = how
    /\ track' = <<>>
    /\ target' = <<>>

PleaseSpecify(p) ==
    IF p = "yt" THEN "Please specify a song" ELSE "Please specify a station"

\* run(voice_command) up to the empty-query check
RunStart(p, voice_command) ==
    /\ made = Len(MakeOrder)
    /\ Idle
    /\ sessions < MaxSessions
    /\ sessions' = sessions + 1
    /\ fetches' = 0
    /\ events' = <<>>
    /\ blank' = IsBlank(p, voice_command)
    /\ LET q == QueryOf(p, voice_command)
       IN IF q = <<>>
          THEN /\ log' = <<Say(p, PleaseSpecify(p), <<>>)>>
               /\ Leave(p, "returned")
          ELSE /\ log' = <<>>
               /\ pc' = [pc EXCEPT ![p] = "search"]
               /\ result' = "running"
               /\ track' = q
               /\ target' = <<>>
    /\ UNCHANGED <<timeVars, volumeVars, made, gpioVars, done, now_playing, playing, evpc>>

\* YouTubePlayer.run: extract_info and the checks of its result
YtSearch(info) ==
    /\ pc["yt"] = "search"
    /\ fetches' = fetches + 1
    /\ IF info.exc \/ ~info.meta.truthy
       THEN /\ log' = Append(log, Say("yt", "Failed to find ", track))
            /\ Leave("yt", "returned")
       ELSE IF info.meta.entries = <<>>
       THEN \* meta['entries'][0] raises IndexError
            /\ log' = log
            /\ Leave("yt", "raised")
       ELSE IF ~info.meta.entries[1].truthy
       THEN /\ log' = Append(log, Say("yt", "Failed to find ", track))
            /\ Leave("yt", "returned")
       ELSE \* url = track_info['url']; media_new(url); set_media(media)
            /\ log' = Append(log, Call("yt", "set_media"))
            /\ pc' = [pc EXCEPT !["yt"] = "label"]
            /\ target' = info.meta.entries[1].title
            /\ UNCHANGED <<track, result>>
    /\ UNCHANGED <<timeVars, volumeVars, made, gpioVars, done, now_playing, playing, evpc,
                   sessions, events, blank>>

\* TuneInRadio.run: stations = self._search(search_str)
RadioSearch(page) ==
    /\ pc["radio"] = "search"
    /\ fetches' = fetches + 1
    /\ LET stations == _search(page)
       IN IF stations.exc
          THEN /\ log' = log
               /\ Leave("radio", "raised")
          ELSE IF ~Truthy(stations)
          THEN /\ log' = Append(log, Say("radio", "Didn't find any stations", <<>>))
               /\ Leave("radio", "returned")
          ELSE /\ log' = log
               /\ pc' = [pc EXCEPT !["radio"] = "resolve"]
               /\ target' = stations.val[1].Title
               /\ UNCHANGED <<track, result>>
    /\ UNCHANGED <<timeVars, volumeVars, made, gpioVars, done, now_playing, playing, evpc,
                   sessions, events, blank>>

\* TuneInRadio.run: url = self._get_stream_url(station['Id'])
RadioResolve(page, list) ==
    /\ pc["radio"] = "resolve"
    /\ fetches' = fetches + StreamFetches(page)
    /\ LET url == _get_stream_url(page, list)
       IN IF url.exc
          THEN /\ log' = log
               /\ Leave("radio", "raised")
          ELSE IF ~Truthy(url)
          THEN /\ log' = Append(log, Say("radio", "Didn't find any streams", <<>>))
               /\ Leave("radio", "returned")
          ELSE \* media_new(url); set_media(media)
               /\ log' = Append(log, Call("radio", "set_media"))
               /\ pc' = [pc EXCEPT !["radio"] = "label"]
               /\ UNCHANGED <<track, target, result>>
    /\ UNCHANGED <<timeVars, volumeVars, made, gpioVars, done, now_playing, playing, evpc,
                   sessions, events, blank>>

\* the label of the session: the cleaned title, or the station's title
LabelOf(p, title) == IF p = "yt" THEN CleanTitle(title) ELSE title

\* self.now_playing = ...
SetLabel(p) ==
    /\ pc[p] = "label"
    /\ now_playing' = [now_playing EXCEPT ![p] = LabelOf(p, target)]
    /\ pc' = [pc EXCEPT ![p] = "announce"]
    /\ UNCHANGED <<timeVars, volumeVars, made, gpioVars, runLocals, done, playing, log, result,
                   fetches, evpc, sessions, events, blank>>

\* self.say('Now playing ' + self.now_playing)
Announce(p) ==
    /\ pc[p] = "announce"
    /\ log' = Append(log, Say(p, "Now playing ", now_playing[p]))
    /\ pc' = [pc EXCEPT ![p] = "play"]
    /\ UNCHANGED <<timeVars, volumeVars, made, gpioVars, runLocals, done, now_playing, playing,
                   result, fetches, evpc, sessions, events, blank>>

\* self.player.play()
Play(p) ==
    /\ pc[p] = "play"
    /\ playing' = [playing EXCEPT ![p] = TRUE]
    /\ log' = Append(log, Call(p, "play"))
    /\ pc' = [pc EXCEPT ![p] = "reset"]
    /\ UNCHANGED <<timeVars, volumeVars, made, gpioVars, runLocals, done, now_playing, result,
                   fetches, evpc, sessions, events, blank>>

\* self.done = False
ResetDone(p) ==
    /\ pc[p] = "reset"
    /\ done' = [done EXCEPT ![p] = FALSE]
    /\ pc' = [pc EXCEPT ![p] = "wait"]
    /\ UNCHANGED <<timeVars, volumeVars, made, gpioVars, runLocals, now_playing, playing, log,
                   result, fetches, evpc, sessions, events, blank>>

\* mutant of WaitExit: the wait loop gives up on its own (a timeout)
WaitExit_Timeout(p) ==
    /\ pc[p] = "wait"
    /\ Leave(p, "returned")
    /\ UNCHANGED <<timeVars, volumeVars, made, gpioVars, done, now_playing, playing, log,
                   fetches, evpc, sessions, events, blank>>

\* while not self.done: time.sleep(1)   -- the loop is left when done is read true
WaitExit(p) ==
    /\ pc[p] = "wait"
    /\ done[p]
    /\ Leave(p, "returned")
    /\ UNCHANGED <<timeVars, volumeVars, made, gpioVars, done, now_playing, playing, log,
                   fetches, evpc, sessions, events, blank>>


\* ------------------------------------------------------- the cancel switch
\* the session of p has called play() and has not left run()
Playing(p) == pc[p] \in {"reset", "wait"}

\* a terminal event of the given kind is observed by p's callback
Observe(p, kind) ==
    events' = IF Playing(p) THEN Append(events, kind) ELSE events

\* an edge on channel 23: RPi.GPIO runs every registered callback in turn
Press ==
    /\ detect
    /\ cbq = <<>>
    /\ presses < MaxPresses
    /\ presses' = presses + 1
    /\ cbq' = callbacks
    /\ UNCHANGED <<timeVars, volumeVars, made, detect, callbacks, pc, runLocals, done,
                   now_playing, playing, log, result, fetches, cbpc, level,
                   polarity, input_value, evpc, sessions, events, blank>>

\* _on_input_event: GPIO.input(channel) returns the level of the line
InputRead(v) ==
    /\ cbq # <<>>
    /\ cbpc = "check"
    /\ cbpc' = "read"
    /\ level' = v
    /\ UNCHANGED <<timeVars, volumeVars, made, detect, callbacks, pc, runLocals, done,
                   now_playing, playing, log, result, fetches, cbq,
                   polarity, input_value, evpc, sessions, presses, events, blank>>

\* mutant of InputEvent: the level that was read is not compared
InputEvent_AnyLevel ==
    /\ cbq # <<>>
    /\ cbpc = "read"
    /\ level' = -1
    /\ LET p == Head(cbq)
       IN /\ playing' = [playing EXCEPT ![p] = FALSE]
          /\ log' = IF pc[p] # "idle" THEN Append(log, Call(p, "stop")) ELSE log
          /\ cbpc' = "stopped"
          /\ cbq' = cbq
          /\ Observe(p, "CancelPress")
    /\ UNCHANGED <<timeVars, volumeVars, made, detect, callbacks, pc, runLocals, done,
                   now_playing, result, fetches, polarity, input_value, evpc,
                   sessions, presses, blank>>

\* _on_input_event: if ... == self.input_value: self.player.stop()
InputEvent ==
    /\ cbq # <<>>
    /\ cbpc = "read"
    /\ level' = -1
    /\ LET p == Head(cbq)
       IN IF PyEqBool(level, input_value[p])
          THEN /\ playing' = [playing EXCEPT ![p] = FALSE]
               /\ log' = IF pc[p] # "idle" THEN Append(log, Call(p, "stop")) ELSE log
               /\ cbpc' = "stopped"
               /\ cbq' = cbq
               /\ Observe(p, "CancelPress")
          ELSE /\ cbq' = Tail(cbq)
               /\ cbpc' = "check"
               /\ UNCHANGED <<playing, log, events>>
    /\ UNCHANGED <<timeVars, volumeVars, made, detect, callbacks, pc, runLocals, done,
                   now_playing, result, fetches, polarity, input_value, evpc,
                   sessions, presses, blank>>

\* mutant of InputSetDone: the callback toggles the flag
InputSetDone_Toggle ==
    /\ cbq # <<>>
    /\ cbpc = "stopped"
    /\ done' = [done EXCEPT ![Head(cbq)] = ~done[Head(cbq)]]
    /\ cbq' = Tail(cbq)
    /\ cbpc' = "check"
    /\ UNCHANGED <<timeVars, volumeVars, made, detect, callbacks, pc, runLocals, now_playing,
                   playing, log, result, fetches, level, polarity, input_value,
                   evpc, sessions, presses, events, blank>>

\* _on_input_event: self.done = True
InputSetDone ==
    /\ cbq # <<>>
    /\ cbpc = "stopped"
    /\ done' = [done EXCEPT ![Head(cbq)] = TRUE]
    /\ cbq' = Tail(cbq)
    /\ cbpc' = "check"
    /\ UNCHANGED <<timeVars, volumeVars, made, detect, callbacks, pc, runLocals, now_playing,
                   playing, log, result, fetches, level, polarity, input_value,
                   evpc, sessions, presses, events, blank>>

\* ------------------------------------------------------ the player's events
\* mutant of EndReached: the end of the stream is announced
EndReached_Says(p) ==
    /\ playing[p]
    /\ evpc[p] = "none"
    /\ playing' = [playing EXCEPT ![p] = FALSE]
    /\ done' = [done EXCEPT ![p] = TRUE]
    /\ log' = Append(log, Say(p, "Finished playing ", now_playing[p]))
    /\ Observe(p, "EndReached")
    /\ UNCHANGED <<timeVars, volumeVars, made, gpioVars, pc, runLocals, now_playing, result,
                   fetches, evpc, sessions, blank>>

\* a playing player reaches the end of its stream:
\* _on_player_event(MediaPlayerEndReached): self.done = True
EndReached(p) ==
    /\ playing[p]
    /\ evpc[p] = "none"
    /\ playing' = [playing EXCEPT ![p] = FALSE]
    /\ done' = [done EXCEPT ![p] = TRUE]
    /\ Observe(p, "EndReached")
    /\ UNCHANGED <<timeVars, volumeVars, made, gpioVars, pc, runLocals, now_playing, log,
                   result, fetches, evpc, sessions, blank>>

\* mutant of PlaybackError: the error branch sets done and says nothing
PlaybackError_Silent(p) ==
    /\ playing[p]
    /\ evpc[p] = "none"
    /\ playing' = [playing EXCEPT ![p] = FALSE]
    /\ evpc' = [evpc EXCEPT ![p] = "said"]
    /\ Observe(p, "PlaybackError")
    /\ UNCHANGED <<timeVars, volumeVars, made, gpioVars, pc, runLocals, done, now_playing, log,
                   result, fetches, sessions, blank>>

\* a playing player fails:
\* _on_player_event(MediaPlayerEncounteredError): self.say("Can't play " + ...)
PlaybackError(p) ==
    /\ playing[p]
    /\ evpc[p] = "none"
    /\ playing' = [playing EXCEPT ![p] = FALSE]
    /\ IF now_playing[p] = None
       THEN \* str + None raises TypeError inside the callback
            UNCHANGED <<log, evpc>>
       ELSE /\ log' = Append(log, Say(p, "Can't play ", now_playing[p]))
            /\ evpc' = [evpc EXCEPT ![p] = "said"]
    /\ Observe(p, "PlaybackError")
    /\ UNCHANGED <<timeVars, volumeVars, made, gpioVars, pc, runLocals, done, now_playing,
                   result, fetches, sessions, blank>>

\* _on_player_event(MediaPlayerEncounteredError): self.done = True
ErrorSetDone(p) ==
    /\ evpc[p] = "said"
    /\ done' = [done EXCEPT ![p] = TRUE]
    /\ evpc' = [evpc EXCEPT ![p] = "none"]
    /\ UNCHANGED <<timeVars, volumeVars, made, gpioVars, pc, runLocals, now_playing, playing,
                   log, result, fetches, sessions, events, blank>>

\* ------------------------------------------------------------ specification
Levels == {0, 1}

Next ==
    \/ Construct
    \/ \E p \in Insts : \E c \in Commands(p) : RunStart(p, c)
    \/ \E i \in ExtractInfos : YtSearch(i)
    \/ \E g \in SearchPages : RadioSearch(g)
    \/ \E g \in StationPages : \E l \in StreamLists : RadioResolve(g, l)
    \/ \E p \in Insts : SetLabel(p)
    \/ \E p \in Insts : Announce(p)
    \/ \E p \in Insts : Play(p)
    \/ \E p \in Insts : ResetDone(p)
    \/ \E p \in Insts : WaitExit(p)
    \/ Press
    \/ \E v \in Levels : InputRead(v)
    \/ InputEvent
    \/ InputSetDone
    \/ \E p \in Insts : EndReached(p)
    \/ \E p \in Insts : PlaybackError(p)
    \/ \E p \in Insts : ErrorSetDone(p)

Spec == Init /\ [][Next]_vars


\* ------------------------------------------------------------- properties
Last(q) == q[Len(q)]

\* the positions of a player call / of a say() call in the log
Calls(p, method) == {i \in 1..Len(log) : log[i] = Call(p, method)}
SayAt(p, text) == {i \in 1..Len(log) : log[i].op = "say" /\ log[i].by = p /\ log[i].text = text}

\* a callback of p has begun and has not yet written self.done
InCallback(p) ==
    \/ cbq # <<>> /\ Head(cbq) = p /\ cbpc = "stopped"
    \/ evpc[p] = "said"

\* C1: a terminal event (EndReached, PlaybackError, cancel press) that fired
\* after play() is never lost: once its callback has finished, run() finds
\* done true in its wait loop (and so leaves the loop and returns).
C1_FiredEventNotLost ==
    \A p \in Insts :
        (pc[p] = "wait" /\ events # <<>> /\ ~InCallback(p)) => done[p]

\* C2: the first terminal event of a session decides it; a callback of
\* another kind that fires against the session once it is terminal makes no
\* say() call, no player.stop() call and no change of done.
C2_LaterCallbackIsNoOp ==
    [][\A p \in Insts :
         (/\ pc[p] = "wait" /\ done[p] /\ events # <<>>
          /\ Len(events') > Len(events)
          /\ Last(events') # events[1])
         => (log' = log /\ done' = done)]_vars

\* C3: once done has become true by a terminal event of the session, it is
\* not set back to false in that session (the session never re-enters
\* Playing).
C3_DoneNeverResetInSession ==
    [][\A p \in Insts :
         (pc[p] # "idle" /\ events # <<>> /\ done[p] /\ pc'[p] # "idle")
         => done'[p]]_vars

\* C4: no run() ends by an exception escaping it: every resolver outcome is
\* reported through say() and run() returns normally.
C4_NoExceptionEscapes == result # "raised"


\* C5: a command that is blank but for the keyword makes run() report
\* 'Please specify ...' once and return at once: no resolver call, no player
\* call, done and now_playing unchanged.
C5_BlankQueryFailsDirectly ==
    [][(sessions' = sessions + 1 /\ blank')
       => /\ Len(log') = 1
          /\ \/ log'[1] = Say("yt", "Please specify a song", <<>>)
             \/ log'[1] = Say("radio", "Please specify a station", <<>>)
          /\ \A p \in Insts : pc'[p] = "idle"
          /\ result' = "returned"
          /\ fetches' = 0
          /\ done' = done
          /\ now_playing' = now_playing
          /\ playing' = playing]_vars

\* a second run() was given a blank command, after a session had set done
C5_Witness ==
    /\ sessions = 2
    /\ blank
    /\ result = "returned"
    /\ log = <<Say("radio", "Please specify a station", <<>>)>>
    /\ done["radio"]

\* C6: when the search of a non-empty query ends the session (zero
\* candidates, an empty result list), 'Failed to find ' + query is said.
C6_ZeroCandidatesReported ==
    [][\A p \in Insts :
         (pc[p] = "search" /\ pc'[p] = "idle")
         => log' = Append(log, Say(p, "Failed to find ", track))]_vars

\* the session of p has seen cancel presses and no player event since play()
Cancelled(p) ==
    /\ Playing(p)
    /\ events # <<>>
    /\ \A i \in 1..Len(events) : events[i] = "CancelPress"

\* C7: a cancel press observed while Playing, before any player event:
\* player.stop() is invoked, nothing is said after 'Now playing', and the
\* session ends (run() finds done true in its wait loop).
C7_PressCancelsSession ==
    \A p \in Insts :
        Cancelled(p)
        => /\ Calls(p, "stop") # {}
           /\ \A i \in SayAt(p, "Now playing ") :
                \A j \in (i + 1)..Len(log) : log[j].op # "say"
           /\ (pc[p] = "wait" /\ ~InCallback(p)) => done[p]

\* C8: a PlaybackError observed while Playing: "Can't play <label>" is said
\* once with the label of the session, play() is not called again, and the
\* session ends (run() finds done true in its wait loop).
C8_ErrorEndsSession ==
    \A p \in Insts :
        (Playing(p) /\ ~InCallback(p)
         /\ \E i \in 1..Len(events) : events[i] = "PlaybackError")
        => /\ Cardinality({i \in SayAt(p, "Can't play ") :
                             /\ log[i].arg = now_playing[p]
                             /\ \A j \in Calls(p, "play") : j < i}) = 1
           /\ Cardinality(Calls(p, "play")) = 1
           /\ pc[p] = "wait" => done[p]


\* the session of the latest run() was p's and resolved a playable target
Resolved(p) == Calls(p, "set_media") # {}

\* the say() calls p has made since the latest run() began
SaysBy(p) == SelectSeq(log, LAMBDA e : e.op = "say" /\ e.by = p)

\* the latest run() was p's, has returned, and EndReached was the only
\* terminal event of its session (no PlaybackError callback of p ran in it)
Completed(p) ==
    /\ Resolved(p)
    /\ pc[p] = "idle"
    /\ result = "returned"
    /\ events = <<"EndReached">>
    /\ SayAt(p, "Can't play ") = {}

\* C9: a session that resolves a playable target says 'Now playing <label>'
\* exactly once, before play() and before run() blocks; and when EndReached
\* is the session's only terminal event, run() returns having said nothing
\* else.
C9_NowPlayingOnceThenSilent ==
    \A p \in Insts :
        /\ (Resolved(p) /\ pc[p] \notin {"label", "announce"})
           => /\ Cardinality(SayAt(p, "Now playing ")) = 1
              /\ \A i \in SayAt(p, "Now playing ") :
                   /\ log[i].arg = now_playing[p]
                   /\ \A j \in Calls(p, "play") : i < j
        /\ pc[p] \in {"label", "announce"}
           => (SayAt(p, "Now playing ") = {} /\ Calls(p, "play") = {})
        /\ Playing(p) => Cardinality(Calls(p, "play")) = 1
        /\ Completed(p) => SaysBy(p) = <<Say(p, "Now playing ", now_playing[p])>>

\* a session of the YouTube player has ended by EndReached
C9_Witness == Completed("yt") /\ Len(log) = 3

\* the sentences of the log that report an outcome (all but 'Now playing')
OutcomeSays == {i \in 1..Len(log) : log[i].op = "say" /\ log[i].text # "Now playing "}

\* C10 (as stated): every run() that has returned has said exactly one
\* sentence that summarizes its outcome.
C10_OneSentencePerOutcome ==
    (Idle /\ sessions > 0 /\ result = "returned") => Cardinality(OutcomeSays) = 1

SaysOf(l) == SelectSeq(l, LAMBDA e : e.op = "say")
IsSayBy(e, p) == e.op = "say" /\ e.by = p

\* C10 (amended): only failures are spoken.  A run() that returns without
\* starting playback makes exactly one say() call, and a PlaybackError
\* callback makes exactly one ("Can't play <label>"); the EndReached
\* callback, the cancel callback, the return from the wait loop and an
\* escaping exception make none.
C10_OnlyFailuresAreSpoken ==
    [][\A p \in Insts :
         /\ (pc[p] \in {"search", "resolve"} /\ pc'[p] = "idle" /\ result' = "returned")
            => \E e \in {Last(log')} : IsSayBy(e, p) /\ log' = Append(log, e)
         /\ (sessions' = sessions + 1 /\ \A q \in Insts : pc'[q] = "idle")
            => Len(log') = 1 /\ log'[1].op = "say"
         /\ (evpc[p] = "none" /\ evpc'[p] = "said")
            => log' = Append(log, Say(p, "Can't play ", now_playing[p]))
         /\ (playing[p] /\ ~playing'[p] /\ evpc' = evpc /\ cbpc' = cbpc)
            => log' = log
         /\ (cbq' # cbq \/ cbpc' # cbpc) => SaysOf(log') = SaysOf(log)
         /\ (pc[p] = "wait" /\ pc'[p] = "idle") => log' = log
         /\ (result' = "raised" /\ result # "raised") => log' = log]_vars

\* a session has ended by a cancel press, with nothing said but 'Now playing'
C10_Witness ==
    /\ Idle
    /\ result = "returned"
    /\ events = <<"CancelPress">>
    /\ Len(SaysOf(log)) = 1

\* the stop() calls in a log
StopsOf(l) == SelectSeq(l, LAMBDA e : e.op = "stop")

\* C11: there is no timeout and no programmatic cancel.  run() enters the
\* wait loop with done false, leaves it only by returning with done read
\* true, done becomes true in the loop only in the cancel callback, the
\* EndReached callback or the PlaybackError callback, and player.stop() is
\* called only by the cancel callback; while none of them runs, run()
\* stays in the loop.
C11_OnlyEventsEndPlayback ==
    [][\A p \in Insts :
         /\ (pc[p] = "reset" /\ pc'[p] # "reset")
            => pc'[p] = "wait" /\ ~done'[p]
         /\ (pc[p] = "wait" /\ pc'[p] # "wait")
            => done[p] /\ pc'[p] = "idle" /\ result' = "returned"
         /\ (pc[p] = "wait" /\ ~done[p] /\ done'[p])
            => \/ cbpc = "stopped" /\ cbpc' = "check" /\ Head(cbq) = p
               \/ playing[p] /\ ~playing'[p] /\ cbpc' = cbpc
               \/ evpc[p] = "said" /\ evpc'[p] = "none"
         /\ (sessions' = sessions /\ StopsOf(log') # StopsOf(log))
            => /\ cbpc = "read" /\ cbpc' = "stopped"
               /\ log' = Append(log, Call(Head(cbq), "stop"))]_vars

\* a session is playing and blocked in the wait loop: no event has been
\* observed and no callback is running
C11_Witness ==
    \E p \in Insts :
        /\ pc[p] = "wait"
        /\ ~done[p]
        /\ playing[p]
        /\ events = <<>>
        /\ cbq = <<>>
        /\ evpc[p] = "none"

\* ------------------------------------------------ the label of every title
\* run() of the YouTube player has resolved a track whose title is any of
\* Titles and is about to set self.now_playing
InitTitle ==
    /\ made = Len(MakeOrder)
    /\ detect = TRUE
    /\ callbacks = MakeOrder
    /\ pc = [p \in Insts |-> IF p = "yt" THEN "label" ELSE "idle"]
    /\ track = <<"a">>
    /\ target \in Titles
    /\ done = [p \in Insts |-> FALSE]
    /\ now_playing = [p \in Insts |-> None]
    /\ playing = [p \in Insts |-> FALSE]
    /\ log = <<Call("yt", "set_media")>>
    /\ result = "running"
    /\ fetches = 1
    /\ cbq = <<>>
    /\ cbpc = "check"
    /\ level = -1
    /\ polarity = [p \in Insts |-> FALLING]
    /\ input_value = [p \in Insts |-> PressedLevel(FALLING)]
    /\ evpc = [p \in Insts |-> "none"]
    /\ sessions = 1
    /\ presses = 0
    /\ events = <<>>
    /\ blank = FALSE
    /\ now = [hour |-> 0, minute |-> 0]
    /\ time_str = None
    /\ mixer = 0
    /\ value = <<>>
    /\ vol_arg = 0
    /\ vol_said = [text |-> "", arg |-> 0]

NextTitle == SetLabel("yt") \/ Announce("yt")

SpecTitle == InitTitle /\ [][NextTitle]_vars

\* the maximal runs of letters and digits of a string: underscores and
\* punctuation separate them
IsAlnum(c) == c \in WordChars \ {"_"}

RECURSIVE AlnumRuns(_, _)
AlnumRuns(s, i) ==
    IF i > Len(s) THEN <<>>
    ELSE IF IsAlnum(s[i])
         THEN LET e == CHOOSE j \in i..Len(s) :
                         /\ \A k \in i..j : IsAlnum(s[k])
                         /\ (j = Len(s) \/ ~IsAlnum(s[j + 1]))
              IN <<SubSeq(s, i, e)>> \o AlnumRuns(s, e + 1)
         ELSE AlnumRuns(s, i + 1)

\* C12: for every title, the label announced on the search-API path is
\* the title's runs of letters and digits joined by single spaces, so it
\* holds no underscore and no punctuation; "foo_bar__42!!baz" gives
\* "foo bar 42 baz".
C12_LabelIsAlnumTokens ==
    pc["yt"] \in {"announce", "play"}
    => /\ now_playing["yt"] = Join(AlnumRuns(target, 1))
       /\ \A i \in 1..Len(now_playing["yt"]) :
             IsAlnum(now_playing["yt"][i]) \/ now_playing["yt"][i] = " "
       /\ Last(log) = Say("yt", "Now playing ", now_playing["yt"])
          \/ pc["yt"] = "announce"

\* ------------------------------------------- searches that find no stations
\* the search pages that are fetched but lack the payload marker or hold no
\* category titled "Stations"
NoStationsPages ==
    {page \in SearchPages :
        /\ page.fetch
        /\ \/ ~page.marker
           \/ \A i \in 1..Len(page.containers) :
                 page.containers[i].Title # FILTER_STATIONS}

\* the radio sessions whose search is answered by such a page
NextNoStations ==
    \/ Construct
    \/ \E c \in Commands("radio") : RunStart("radio", c)
    \/ \E page \in NoStationsPages : RadioSearch(page)
    \/ Press
    \/ \E v \in Levels : InputRead(v)
    \/ InputEvent
    \/ InputSetDone

SpecNoStations == Init /\ [][NextNoStations]_vars

\* C13: when the search response lacks the marker or has no category
\* titled "Stations", the search step of run() says "Didn't find any
\* stations" and returns, having made the one search request only, with
\* no station page fetched and no set_media or play call on the player.
C13_NoStationsReported ==
    [][(pc["radio"] = "search" /\ pc'["radio"] # "search")
       => /\ pc'["radio"] = "idle"
          /\ result' = "returned"
          /\ log' = Append(log, Say("radio", "Didn't find any stations", <<>>))
          /\ fetches' = 1
          /\ \A i \in 1..Len(log') : log'[i].op \notin {"set_media", "play"}
          /\ playing' = playing
          /\ now_playing' = now_playing]_vars

\* such a session has ended
C13_Witness ==
    /\ pc["radio"] = "idle"
    /\ result = "returned"
    /\ ~blank
    /\ fetches = 1
    /\ Last(log) = Say("radio", "Didn't find any stations", <<>>)

\* C14: arming the switch on a channel that already has event detection
\* does not fail: every construction ends with the new instance's callback
\* appended to the channel's callbacks, every edge queues the callbacks of
\* all registered instances, and each queued callback is run in turn.
C14_RearmAddsCallback ==
    [][/\ made' # made
          => /\ made' = made + 1
             /\ detect'
             /\ callbacks' = Append(callbacks, MakeOrder[made + 1])
       /\ presses' # presses
          => /\ cbq' = callbacks
             /\ made = Len(MakeOrder)
                => \A p \in Insts : \E i \in 1..Len(cbq') : cbq'[i] = p
       /\ (cbq # <<>> /\ cbq' # cbq) => cbq' = Tail(cbq)]_vars

\* one press, after both constructions, has run the callbacks of both
\* instances
C14_Witness ==
    /\ made = Len(MakeOrder)
    /\ presses = 1
    /\ sessions = 0
    /\ cbq = <<>>
    /\ \A p \in Insts : done[p]

\* C15: stopping is idempotent.  Every step of a cancel callback says
\* nothing and leaves run() where it is; its stop() leaves the player
\* stopped and its last step leaves done true.  On an instance that an
\* earlier press has already stopped (player stopped, done true) the whole
\* callback changes neither the player, nor done, nor the label.
C15_StopIsIdempotent ==
    [][(cbq # <<>> /\ (cbq' # cbq \/ cbpc' # cbpc))
       => LET p == Head(cbq)
          IN /\ SaysOf(log') = SaysOf(log)
             /\ pc' = pc /\ result' = result /\ now_playing' = now_playing
             /\ cbpc' = "stopped" => ~playing'[p] /\ done' = done
             /\ cbpc = "stopped" => done'[p] /\ playing' = playing
             /\ (done[p] /\ ~playing[p])
                => done' = done /\ playing' = playing]_vars

\* two presses in a row have been observed by a session in its wait loop
C15_Witness ==
    \E p \in Insts :
        /\ pc[p] = "wait"
        /\ events = <<"CancelPress", "CancelPress">>
        /\ done[p]
        /\ cbq = <<>>

\* C16: a cancel press or player event delivered to an instance before its
\* session has started playback never cancels or shortens that session:
\* no step of a callback takes run() off its way to play(), and run()
\* leaves the wait loop only when a terminal event has been observed
\* after play().
C16_EarlyEventNeverEndsSession ==
    [][\A p \in Insts :
         /\ (pc[p] \in {"label", "announce", "play"} /\ pc'[p] # pc[p])
            => pc'[p] \in {"announce", "play", "reset"}
         /\ (pc[p] = "wait" /\ pc'[p] = "idle") => events # <<>>]_vars

\* --------------------------------------------- the switch at either polarity
\* both instances have armed the switch, each with either polarity, and the
\* session of one of them is playing in its wait loop
Polarities == {FALLING, RISING}

InitSwitch ==
    \E p0 \in Insts :
        /\ made = Len(MakeOrder)
        /\ detect = TRUE
        /\ callbacks = MakeOrder
        /\ pc = [p \in Insts |-> IF p = p0 THEN "wait" ELSE "idle"]
        /\ track = <<"a">>
        /\ target \in (IF p0 = "yt" THEN YtTitles ELSE StationTitles)
        /\ done = [p \in Insts |-> FALSE]
        /\ now_playing = [p \in Insts |-> IF p = p0 THEN LabelOf(p0, target) ELSE None]
        /\ playing = [p \in Insts |-> p = p0]
        /\ log = <<Call(p0, "set_media"),
                   Say(p0, "Now playing ", LabelOf(p0, target)),
                   Call(p0, "play")>>
        /\ result = "running"
        /\ fetches = (IF p0 = "yt" THEN 1 ELSE 3)
        /\ cbq = <<>>
        /\ cbpc = "check"
        /\ level = -1
        /\ polarity \in [Insts -> Polarities]
        /\ input_value = [p \in Insts |-> PressedLevel(polarity[p])]
        /\ evpc = [p \in Insts |-> "none"]
        /\ sessions = 1
        /\ presses = 0
        /\ events = <<>>
        /\ blank = FALSE
        /\ now = [hour |-> 0, minute |-> 0]
        /\ time_str = None
        /\ mixer = 0
        /\ value = <<>>
        /\ vol_arg = 0
        /\ vol_said = [text |-> "", arg |-> 0]

NextSwitch ==
    \/ Press
    \/ \E v \in Levels : InputRead(v)
    \/ InputEvent
    \/ InputSetDone
    \/ \E p \in Insts : WaitExit(p)

SpecSwitch == InitSwitch /\ [][NextSwitch]_vars

\* C17: the cancel callback acts only when the line read the pressed
\* level (low for FALLING, high for RISING): it then calls player.stop()
\* and, in a later step, sets done true; when the line read the other
\* level the callback ends with the player, done, now_playing and the log
\* unchanged.  done becomes true in no other step of a callback.
C17_CallbackActsOnPressedLevel ==
    [][/\ (cbq # <<>> /\ cbpc = "read" /\ cbpc' # "read")
          => LET p == Head(cbq)
             IN IF level = (IF polarity[p] = RISING THEN 1 ELSE 0)
                THEN /\ playing' = [playing EXCEPT ![p] = FALSE]
                     /\ pc[p] # "idle" => log' = Append(log, Call(p, "stop"))
                     /\ done' = done
                     /\ cbpc' = "stopped" /\ cbq' = cbq
                ELSE /\ playing' = playing /\ done' = done
                     /\ now_playing' = now_playing /\ log' = log
                     /\ cbq' = Tail(cbq) /\ cbpc' = "check"
       /\ (cbq # <<>> /\ cbpc = "stopped" /\ cbpc' # "stopped")
          => /\ done' = [done EXCEPT ![Head(cbq)] = TRUE]
             /\ playing' = playing /\ now_playing' = now_playing
       /\ done' # done => cbpc = "stopped"]_vars

\* one edge has run both callbacks: the instance armed with RISING acted,
\* the instance armed with FALLING did not
C17_Witness ==
    \E p, q \in Insts :
        /\ polarity[p] = RISING /\ polarity[q] = FALLING
        /\ presses = 1 /\ cbq = <<>>
        /\ done[p] /\ ~done[q]
        /\ playing[q] /\ pc[q] = "wait"

\* -------------------------------------------------------------- SpeakTime
playerVars == <<made, gpioVars, pc, runLocals, done, now_playing, playing, log,
                result, fetches, evpc, sessions, events, blank>>

HRS_TEXT == <<"midnight", "one", "two", "three", "four", "five", "six",
              "seven", "eight", "nine", "ten", "eleven", "twelve">>
MINS_TEXT == <<"five", "ten", "quarter", "twenty", "twenty-five", "half">>

\* list[i] of Python: an index below zero counts from the end, an index
\* out of range raises IndexError
PyIndex(list, i) ==
    IF i >= 0 /\ i < Len(list) THEN list[i + 1]
    ELSE IF i < 0 /\ i >= -Len(list) THEN list[Len(list) + i + 1]
    ELSE "IndexError"

\* mutant of to_str: the next hour is not wrapped at 24
to_str_NoWrap(dt) ==
    LET rounded == (dt.minute + 2) \div 5
        minute_is_inverted == rounded > 6
        minute_rounded == IF minute_is_inverted THEN 12 - rounded ELSE rounded
        hour24 == IF minute_is_inverted THEN dt.hour + 1 ELSE dt.hour
        hour == IF hour24 > 12 THEN hour24 - 12 ELSE hour24
    IN IF minute_rounded = 0
       THEN IF hour = 0 THEN <<"It is midnight.">>
            ELSE <<"It is ", PyIndex(HRS_TEXT, hour), " o'clock.">>
       ELSE IF minute_is_inverted
       THEN <<"It is ", PyIndex(MINS_TEXT, minute_rounded - 1), " to ",
              PyIndex(HRS_TEXT, hour), ".">>
       ELSE <<"It is ", PyIndex(MINS_TEXT, minute_rounded - 1), " past ",
              PyIndex(HRS_TEXT, hour), ".">>

\* SpeakTime.to_str: the sentence, as the pieces the format joins
to_str(dt) ==
    LET rounded == (dt.minute + 2) \div 5
        minute_is_inverted == rounded > 6
        minute_rounded == IF minute_is_inverted THEN 12 - rounded ELSE rounded
        hour24 == IF minute_is_inverted THEN (dt.hour + 1) % 24 ELSE dt.hour
        hour == IF hour24 > 12 THEN hour24 - 12 ELSE hour24
    IN IF minute_rounded = 0
       THEN IF hour = 0 THEN <<"It is midnight.">>
            ELSE <<"It is ", PyIndex(HRS_TEXT, hour), " o'clock.">>
       ELSE IF minute_is_inverted
       THEN <<"It is ", PyIndex(MINS_TEXT, minute_rounded - 1), " to ",
              PyIndex(HRS_TEXT, hour), ".">>
       ELSE <<"It is ", PyIndex(MINS_TEXT, minute_rounded - 1), " past ",
              PyIndex(HRS_TEXT, hour), ".">>

\* SpeakTime.run: time_str = self.to_str(datetime.datetime.now()); say it
SpeakTimeRun(h, m) ==
    /\ now' = [hour |-> h, minute |-> m]
    /\ time_str' = to_str(now')
    /\ UNCHANGED <<playerVars, volumeVars>>

NextTime == \E h \in 0..23, m \in 0..59 : SpeakTimeRun(h, m)

SpecTime == Init /\ [][NextTime]_vars

\* the multiple of five nearest to a minute, and the names of the clock
Nearest5(m) == CHOOSE r \in {5 * k : k \in 0..12} : m - r \in -2..2
HourName(h) ==
    IF h = 0 THEN "midnight"
    ELSE IF h > 12 THEN HRS_TEXT[h - 12 + 1] ELSE HRS_TEXT[h + 1]
MinName(r) == MINS_TEXT[r \div 5]
OClock(h) ==
    IF h = 0 THEN <<"It is midnight.">>
    ELSE <<"It is ", HourName(h), " o'clock.">>
NoIndexError(str) == \A i \in 1..Len(str) : str[i] # "IndexError"

\* C18: for every hour 0..23 and minute 0..59 to_str indexes no list out
\* of range and returns the time rounded to the nearest five minutes:
\* "o'clock" (or 'It is midnight.' at hour 0) for rounded minute 0,
\* '<mins> past <hour>' for rounded minutes 5..30, and '<mins> to <next
\* hour>' for minutes 33..59, the next hour wrapped modulo 24 and reduced
\* to its 12-hour name.
C18_ToStrByMinuteRange ==
    time_str # None
    => LET h == now.hour
           m == now.minute
           r == Nearest5(m)
       IN /\ NoIndexError(time_str)
          /\ r = 0 => time_str = OClock(h)
          /\ r \in 5..30
             => time_str = <<"It is ", MinName(r), " past ", HourName(h), ".">>
          /\ m \in 33..59
             => /\ Len(time_str) = 5
                /\ time_str[3] = " to "
                /\ time_str[4] = HourName((h + 1) % 24)
                /\ r <= 55 => time_str[2] = MinName(60 - r)

\* C18 (amended): as above, but '<mins> to <next hour>' is returned for
\* minutes 33..57 only; minutes 58 and 59 round up to the full hour and
\* give the next hour's "o'clock" ('It is midnight.' after 23).
C18_ToStrRoundsUpToNextHour ==
    time_str # None
    => LET h == now.hour
           m == now.minute
           r == Nearest5(m)
           next == (h + 1) % 24
       IN /\ NoIndexError(time_str)
          /\ r = 0 => time_str = OClock(h)
          /\ r \in 5..30
             => time_str = <<"It is ", MinName(r), " past ", HourName(h), ".">>
          /\ m \in 33..57
             => time_str = <<"It is ", MinName(60 - r), " to ", HourName(next), ".">>
          /\ m \in 58..59 => time_str = OClock(next)

\* two minutes to midnight is said as midnight
C18_Witness ==
    /\ now = [hour |-> 23, minute |-> 58]
    /\ time_str = <<"It is midnight.">>

\* ----------------------------------------------------------- VolumeControl
\* the modes run() tells apart: 'up', 'down', 'max', 'mute', the empty
\* mode, and any other text, whose first run of digits (re.search(r'\d+'))
\* is num, or which has no digit (num = -1)
MaxVolumeArg == 120
VolumeModes ==
    {[word |-> w, num |-> -1] : w \in {"up", "down", "max", "mute", "", "other"}}
    \cup {[word |-> "other", num |-> n] : n \in 0..MaxVolumeArg}

Max(a, b) == IF a > b THEN a ELSE b
Min(a, b) == IF a < b THEN a ELSE b

\* mutant of set: the value is passed on as it is
set_NoClamp(st, v) ==
    [mixer |-> v, value |-> <<v>>, vol_arg |-> v]

\* VolumeControl.set: vol = max(0, min(100, value)); amixer; self.value = vol
set(st, v) ==
    LET vol == Max(0, Min(100, v))
    IN [mixer |-> vol, value |-> <<vol>>, vol_arg |-> v]

\* VolumeControl.increment: vol = int(GET_VOLUME) + value; self.set(vol)
increment(st, d) == set(st, st.mixer + d)

\* VolumeControl.tell: a value of None or 0 is read again from the mixer
tell(st) ==
    IF st.value = <<>> \/ st.value = <<0>>
    THEN [st EXCEPT !.value = <<st.mixer>>]
    ELSE st

\* VolumeControl.run
VolumeRun(mode) ==
    LET st == [mixer |-> mixer, value |-> value, vol_arg |-> vol_arg]
        changed ==
            IF mode.word = "up" THEN increment(st, 10)
            ELSE IF mode.word = "down" THEN increment(st, -10)
            ELSE IF mode.word = "max" THEN set(st, 100)
            ELSE IF mode.word = "mute" THEN set(st, 0)
            ELSE IF mode.word # "" /\ mode.num >= 0 THEN set(st, mode.num)
            ELSE st
        told == tell(changed)
    IN /\ IF mode.word = "other" /\ mode.num < 0
          THEN /\ vol_said' = [text |-> "Please specify a value.", arg |-> 0]
               /\ UNCHANGED <<mixer, value, vol_arg>>
          ELSE /\ mixer' = told.mixer
               /\ value' = told.value
               /\ vol_arg' = told.vol_arg
               /\ vol_said' = [text |-> "Volume at %d %%.", arg |-> told.value[1]]
       /\ UNCHANGED <<playerVars, timeVars>>

NextVolume == \E mode \in VolumeModes : VolumeRun(mode)

\* the mixer is at any level when the actor is made
InitVolume == \E volume \in 0..100 : InitAt(volume)

SpecVolume == InitVolume /\ [][NextVolume]_vars

\* C19: after any sequence of volume commands the value passed to the
\* mixer and the value stored in self.value are within 0..100: every
\* call of set(v), from a number, 'max', 'mute' or increment's current
\* volume + d, leaves both at v clamped to 0..100.
C19_VolumeWithinRange ==
    [][/\ mixer' \in 0..100
       /\ value' # <<>> => value'[1] \in 0..100
       /\ (vol_arg' # vol_arg \/ mixer' # mixer)
          => /\ mixer' = (IF vol_arg' < 0 THEN 0
                          ELSE IF vol_arg' > 100 THEN 100 ELSE vol_arg')
             /\ value' = <<mixer'>>
       /\ vol_said'.text = "Volume at %d %%." => vol_said'.arg = mixer']_vars

\* 'up' at full volume: set(110) has left the mixer and self.value at 100
C19_Witness ==
    /\ vol_arg = 110
    /\ mixer = 100
    /\ value = <<100>>

====
